---- MODULE Spec2Model ----
(***************************************************************************)
(* A model of the RUDP session engine of src/rudp.go.                      *)
(*                                                                         *)
(* How the source is read.  The file is not well typed as it stands, so    *)
(* the model fixes a reading and keeps to it:                              *)
(*  - containers and buffers exist when used (FreeList, tmp.Packages,      *)
(*    Message.Buf, RUDPPackage.Buf, the result slice of RUDPRecv); the     *)
(*    FreeList is allocation bookkeeping and is not part of the state;     *)
(*  - misspelt identifiers name the evident variable (intbuf, buffer ->    *)
(*    buf; lenn, len -> length); u.Corrupt is tested against 0;            *)
(*  - every list holds Messages: the conversion of a list element m to a   *)
(*    Message pointer is the message held by m, SendHistory.PushBack(m)    *)
(*    pushes that message, and                                             *)
(*    RecvQueue.InsertAfter(u, e) inserts the message m built on the line  *)
(*    above it (which Go would otherwise reject as unused);                *)
(*  - GenOutPackage returns tmp.Packages;                                  *)
(*  - everything else is taken as written: which end of a list a push      *)
(*    goes to, which fields are assigned and which are not, the offsets    *)
(*    handed to FillHeader, the comparison operators and the constants;    *)
(*    container/list semantics apply (e.Next() and e.Prev() of a removed   *)
(*    element are nil, so a loop that removes e and then steps ends).      *)
(*                                                                         *)
(* A list is a sequence whose index 1 is Front().  A byte is 0..255.       *)
(***************************************************************************)
EXTENDS Integers, Sequences, FiniteSets, TLC

VARIABLES ss, net, ret

vars == <<ss, net, ret>>

(* ------------------------------ bounds --------------------------------- *)
MaxTick == 3
MaxSend == 2
MaxQueue == 2
MaxAgain == 1

(* -------------------------- program constants -------------------------- *)
DefaultPackageSize == 512
TypeIgnore == 0
TypeCorrupt == 1
TypeRequest == 2
TypeMissing == 3
TypeNormal == 4

Sessions == {"A", "B"}

Peer(s) == IF s = "A" THEN "B" ELSE "A"

(* ------------------------------ helpers -------------------------------- *)
Drop(q, n) == SubSeq(q, n + 1, Len(q))

Take(q, n) == SubSeq(q, 1, n)

RemoveAt(q, i) == SubSeq(q, 1, i - 1) \o SubSeq(q, i + 1, Len(q))

InsertAfterAt(q, i, x) == SubSeq(q, 1, i) \o <<x>> \o SubSeq(q, i + 1, Len(q))

(* F applied to the value of x, the value worked out once *)
Then(x, F(_)) == CHOOSE r \in {F(v) : v \in {x}} : TRUE

RECURSIVE BitOr(_, _)
BitOr(a, b) ==
    IF a = 0 THEN b
    ELSE IF b = 0 THEN a
    ELSE (IF (a % 2 = 1) \/ (b % 2 = 1) THEN 1 ELSE 0) + 2 * BitOr(a \div 2, b \div 2)

(* ------------------------------ RUDPNew -------------------------------- *)
RUDPNew(sendDlay, ExpireTime) ==
    [ SendQueue      |-> <<>>,
      RecvQueue      |-> <<>>,
      SendHistory    |-> <<>>,
      SendPackage    |-> <<>>,
      SendAgain      |-> [N |-> 0, A |-> <<>>],
      Corrupt        |-> 0,
      CurrentTick    |-> 0,
      LastSendTick   |-> 0,
      LastExpireTick |-> 0,
      SendId         |-> 0,
      RecvIdMin      |-> 0,
      RecvIdMax      |-> 0,
      SendDelay      |-> sendDlay,
      Expired        |-> ExpireTime ]

(* Removes the front element only: e.Next() of the removed element is nil. *)
ClearOutPacakge(u) ==
    [u EXCEPT !.SendPackage = IF Len(@) = 0 THEN @ ELSE Tail(@)]

ClearMessageQueue(l) == IF Len(l) = 0 THEN l ELSE Tail(l)

RUDPDelete(u) ==
    ClearOutPacakge(
        [u EXCEPT !.SendQueue = ClearMessageQueue(@),
                  !.RecvQueue = ClearMessageQueue(@),
                  !.SendHistory = ClearMessageQueue(@)])

(* copy(ele.Buf, buf) with size bytes wanted; a size below 0 copies nothing *)
NewMessage(buf, size) ==
    [ ID   |-> 0,
      Tick |-> 0,
      Size |-> size,
      Buf  |-> IF size > 0 THEN Take(buf, size) ELSE <<>> ]

QueuePush(q, m) == <<m>> \o q

(* index of the first element from the front whose ID is id, 0 if none *)
QueueFind(q, id) ==
    IF \E i \in 1..Len(q) : q[i].ID = id
    THEN CHOOSE i \in 1..Len(q) : q[i].ID = id /\ \A j \in 1..(i - 1) : q[j].ID # id
    ELSE 0

QueuePop(q, id) ==
    LET i == QueueFind(q, id)
    IN  IF i = 0 THEN [q |-> q, m |-> <<>>]
        ELSE [q |-> RemoveAt(q, i), m |-> <<q[i]>>]

RUDPSend(u, buf, size) ==
    LET m == [NewMessage(buf, size) EXCEPT !.ID = u.SendId + 1, !.Tick = u.CurrentTick]
    IN  [u EXCEPT !.SendId = u.SendId + 1,
                  !.SendQueue = QueuePush(@, m)]

(* RUDPRecv with the flag left set when the error is reported *)
RUDPRecv_FlagKept(u) ==
    IF u.Corrupt # 0
    THEN [u |-> u, m |-> <<>>, err |-> TRUE]
    ELSE LET p == QueuePop(u.RecvQueue, u.RecvIdMin)
         IN  IF p.m = <<>>
             THEN [u |-> u, m |-> <<>>, err |-> FALSE]
             ELSE [u |-> [u EXCEPT !.RecvQueue = p.q, !.RecvIdMin = @ + 1],
                   m |-> p.m, err |-> FALSE]

(* result: the session, the message whose bytes are copied out (none: <<>>) *)
(* and whether ErrCorrupt is returned                                       *)
RUDPRecv(u) ==
    IF u.Corrupt # 0
    THEN [u |-> [u EXCEPT !.Corrupt = 0], m |-> <<>>, err |-> TRUE]
    ELSE LET p == QueuePop(u.RecvQueue, u.RecvIdMin)
         IN  IF p.m = <<>>
             THEN [u |-> u, m |-> <<>>, err |-> FALSE]
             ELSE [u |-> [u EXCEPT !.RecvQueue = p.q, !.RecvIdMin = @ + 1],
                   m |-> p.m, err |-> FALSE]

(* From the back: elements with Tick < tick are stepped over; the first    *)
(* one with Tick >= tick is removed and the walk ends there.               *)
ClearSendExpired(u, tick) ==
    LET h == u.SendHistory
        hit == {i \in 1..Len(h) : h[i].Tick >= tick}
    IN  IF hit = {} THEN u
        ELSE LET i == CHOOSE k \in hit : \A j \in hit : j <= k
             IN  [u EXCEPT !.SendHistory = RemoveAt(h, i)]

GetID(u, buf) ==
    LET raw == buf[1] * 256 + buf[2]
        id  == raw + (u.RecvIdMax - (u.RecvIdMax % 65536))
    IN  IF id < u.RecvIdMax - 32768 THEN id + 1048576
        ELSE IF id > u.RecvIdMax + 32768 THEN id - 1048576
        ELSE id

(* index, scanning from the back, of the first message with ID > id; 0 if none *)
InsertPos(q, id) ==
    LET hit == {i \in 1..Len(q) : q[i].ID > id}
    IN  IF hit = {} THEN 0 ELSE CHOOSE k \in hit : \A j \in hit : j <= k

(* InsertMessage without the test that drops an ID below recv_id_min *)
InsertMessage_NoFloor(u, id, buf, size) ==
    IF id > u.RecvIdMax \/ Len(u.RecvQueue) = 0
    THEN [u EXCEPT !.RecvQueue = QueuePush(@, [NewMessage(buf, size) EXCEPT !.ID = id]),
                   !.RecvIdMax = id]
    ELSE LET e == InsertPos(u.RecvQueue, id)
         IN  IF e = 0 THEN u
             ELSE [u EXCEPT !.RecvQueue = InsertAfterAt(@, e, NewMessage(buf, size))]

InsertMessage(u, id, buf, size) ==
    IF id < u.RecvIdMin THEN u
    ELSE IF id > u.RecvIdMax \/ Len(u.RecvQueue) = 0
    THEN [u EXCEPT !.RecvQueue = QueuePush(@, [NewMessage(buf, size) EXCEPT !.ID = id]),
                   !.RecvIdMax = id]
    ELSE LET e == InsertPos(u.RecvQueue, id)
         IN  IF e = 0 THEN u
             ELSE [u EXCEPT !.RecvQueue = InsertAfterAt(@, e, NewMessage(buf, size))]

AddMissing(u, id) == InsertMessage(u, id, <<>>, -1)

(* ---------------------------- ExtractPackage ---------------------------- *)
(* ExtractPackage that sets the flag at a Corrupt record and decodes on *)
RECURSIVE ExtractPackage_DecodesOn(_, _, _)
ExtractPackage_DecodesOn(u, buf, size) ==
    IF size <= 0 THEN u
    ELSE
    LET b0     == buf[1]
        long   == b0 > 127
    IN  IF long /\ size <= 1 THEN [u EXCEPT !.Corrupt = 1]
        ELSE
        LET length == IF long THEN (b0 * 256 + buf[2]) % 32768 ELSE b0
            rest   == IF long THEN Drop(buf, 2) ELSE Drop(buf, 1)
            sz     == IF long THEN size - 2 ELSE size - 1
        IN  IF length = TypeIgnore
            THEN ExtractPackage_DecodesOn(
                     IF u.SendAgain.N = 0
                     THEN [u EXCEPT !.SendAgain.A = Append(@, u.RecvIdMin)]
                     ELSE u,
                     rest, sz)
            ELSE IF length = TypeCorrupt
            THEN ExtractPackage_DecodesOn([u EXCEPT !.Corrupt = 1], rest, sz)
            ELSE IF length = TypeRequest \/ length = TypeMissing
            THEN IF sz < 2 THEN [u EXCEPT !.Corrupt = 1]
                 ELSE ExtractPackage_DecodesOn(
                          IF length = TypeRequest
                          THEN [u EXCEPT !.SendAgain.A = Append(@, GetID(u, rest))]
                          ELSE AddMissing(u, GetID(u, rest)),
                          Drop(rest, 2), sz - 2)
            ELSE LET len == length - TypeNormal
                 IN  IF sz < len + 2 THEN [u EXCEPT !.Corrupt = 1]
                     ELSE ExtractPackage_DecodesOn(
                              InsertMessage(u, GetID(u, rest), Drop(rest, 2), len),
                              Drop(rest, len + 2), sz - len - 2)

(* One turn of the loop body per call; buf is the unread rest of the       *)
(* packet and size the count of its bytes still to be decoded.             *)
RECURSIVE ExtractPackage(_, _, _)
ExtractPackage(u, buf, size) ==
    IF size <= 0 THEN u
    ELSE
    LET b0     == buf[1]
        long   == b0 > 127
    IN  IF long /\ size <= 1 THEN [u EXCEPT !.Corrupt = 1]
        ELSE
        LET length == IF long THEN (b0 * 256 + buf[2]) % 32768 ELSE b0
            rest   == IF long THEN Drop(buf, 2) ELSE Drop(buf, 1)
            sz     == IF long THEN size - 2 ELSE size - 1
        IN  IF length = TypeIgnore
            THEN ExtractPackage(
                     IF u.SendAgain.N = 0
                     THEN [u EXCEPT !.SendAgain.A = Append(@, u.RecvIdMin)]
                     ELSE u,
                     rest, sz)
            ELSE IF length = TypeCorrupt
            THEN [u EXCEPT !.Corrupt = 1]
            ELSE IF length = TypeRequest \/ length = TypeMissing
            THEN IF sz < 2 THEN [u EXCEPT !.Corrupt = 1]
                 ELSE ExtractPackage(
                          IF length = TypeRequest
                          THEN [u EXCEPT !.SendAgain.A = Append(@, GetID(u, rest))]
                          ELSE AddMissing(u, GetID(u, rest)),
                          Drop(rest, 2), sz - 2)
            ELSE LET len == length - TypeNormal
                 IN  IF sz < len + 2 THEN [u EXCEPT !.Corrupt = 1]
                     ELSE ExtractPackage(
                              InsertMessage(u, GetID(u, rest), Drop(rest, 2), len),
                              Drop(rest, len + 2), sz - len - 2)

(* ------------------------------- packing -------------------------------- *)
(* TmpBuffer: Buf holds the first four bytes of the 512-byte array, the    *)
(* only ones ever written; every byte behind them is 0.                    *)
NewTmpBuffer == [Buf |-> <<0, 0, 0, 0>>, Size |-> 0, Packages |-> <<>>]

BufBytes(head, n) == [i \in 1..n |-> IF i <= Len(head) THEN head[i] ELSE 0]

NewPacakge(tmp) ==
    [tmp EXCEPT !.Packages = Append(@, [Size |-> tmp.Size, Buf |-> BufBytes(tmp.Buf, tmp.Size)]),
                !.Size = 0]

(* writes the header at the start of buf; size is the header's byte count *)
FillHeader(buf, length, id) ==
    LET hi == (id \div 256) % 256
        lo == id % 256
    IN  IF length < 128
        THEN [buf |-> <<length, hi, lo>> \o Drop(buf, 3), size |-> 3]
        ELSE [buf |-> <<BitOr((length \div 256) % 128, 137), length % 256, hi, lo>>
                          \o Drop(buf, 4),
              size |-> 4]

PackRequest(tmp, id, tag) ==
    LET t == IF DefaultPackageSize - tmp.Size < 3 THEN NewPacakge(tmp) ELSE tmp
        h == FillHeader(t.Buf, tag, id)
    IN  [t EXCEPT !.Buf = h.buf, !.Size = @ + h.size]

(* Only a message too large for one buffer is packed: the package gets the *)
(* header and the payload, and its Size field is never assigned.           *)
PackMessage(tmp, m) ==
    IF m.Size > DefaultPackageSize - 4
    THEN LET t == IF tmp.Size > 0 THEN NewPacakge(tmp) ELSE tmp
             h == FillHeader(<<0, 0, 0, 0>>, m.Size + TypeNormal, m.ID)
         IN  [t EXCEPT !.Packages = Append(@, [Size |-> 0, Buf |-> Take(h.buf, 4) \o m.Buf])]
    ELSE tmp

RECURSIVE RequestRun(_, _, _)
RequestRun(tmp, i, top) ==
    IF i < top THEN RequestRun(PackRequest(tmp, i, TypeRequest), i + 1, top) ELSE tmp

RECURSIVE RequestWalk(_, _, _, _)
RequestWalk(q, tmp, id, m) ==
    IF m > Len(q) THEN tmp
    ELSE RequestWalk(q,
                     IF q[m].ID > id THEN RequestRun(tmp, id, q[m].ID) ELSE tmp,
                     q[m].ID + 1, m + 1)

RequestMissing(u, tmp) == RequestWalk(u.RecvQueue, tmp, u.RecvIdMin, 1)

(* i counts the requests served, m is the history cursor (a list index) *)
RECURSIVE ReplyWalk(_, _, _, _)
ReplyWalk(u, tmp, i, m) ==
    IF i >= u.SendAgain.N THEN tmp
    ELSE
    LET id == u.SendAgain.A[i + 1]
        h  == u.SendHistory
    IN  IF id < u.RecvIdMin THEN ReplyWalk(u, tmp, i + 1, m)
        ELSE IF m > Len(h) THEN ReplyWalk(u, PackRequest(tmp, id, TypeMissing), i + 1, m)
        ELSE IF id < h[m].ID THEN ReplyWalk(u, PackRequest(tmp, id, TypeMissing), i + 1, m)
        ELSE IF id = h[m].ID THEN ReplyWalk(u, PackMessage(tmp, h[m]), i + 1, m)
        ELSE ReplyWalk(u, tmp, i, m + 1)

ReplyRequest(u, tmp) ==
    [u |-> [u EXCEPT !.SendAgain.N = 0], tmp |-> ReplyWalk(u, tmp, 0, 1)]

(* The loop removes the front element and then steps from it: one turn. *)
SendMessage(u, tmp) ==
    IF Len(u.SendQueue) = 0 THEN [u |-> u, tmp |-> tmp]
    ELSE LET ele == Head(u.SendQueue)
         IN  [u   |-> [u EXCEPT !.SendHistory = Append(@, ele),
                                !.SendQueue = Tail(@)],
              tmp |-> PackMessage(tmp, ele)]

(* the keep-alive fill and the closing NewPacakge *)
SealBatch(tmp) ==
    NewPacakge(IF Len(tmp.Packages) = 0 /\ tmp.Size = 0
               THEN [tmp EXCEPT !.Buf = <<TypeIgnore>> \o Drop(@, 1), !.Size = 1]
               ELSE tmp).Packages

GenOutPackage(u) ==
    Then(RequestMissing(u, NewTmpBuffer), LAMBDA t1 :
    Then(ReplyRequest(u, t1), LAMBDA r2 :
    Then(SendMessage(r2.u, r2.tmp), LAMBDA r3 :
        [u |-> r3.u, packages |-> SealBatch(r3.tmp)])))

(* the decode and expiry steps of RUDPUpdate: lines 391 to 398 *)
UpdateDecode(u, buf, size, tick) ==
    Then(ExtractPackage(ClearOutPacakge([u EXCEPT !.CurrentTick = @ + tick]), buf, size),
         LAMBDA u2 :
             IF u2.CurrentTick > u2.LastExpireTick + u2.Expired
             THEN [ClearSendExpired(u2, u2.LastExpireTick)
                       EXCEPT !.LastExpireTick = u2.CurrentTick]
             ELSE u2)

(* the send cycle of RUDPUpdate: lines 400 to 402 *)
UpdateSend(u) ==
    Then(GenOutPackage(u), LAMBDA g :
        [u |-> [g.u EXCEPT !.SendPackage = g.packages,
                           !.LastSendTick = g.u.CurrentTick],
         sent |-> TRUE, batch |-> g.packages])

(* RUDPUpdate that sends only once the interval is exceeded *)
RUDPUpdate_Late(u, buf, size, tick) ==
    Then(UpdateDecode(u, buf, size, tick), LAMBDA u3 :
        IF u3.CurrentTick > u3.LastSendTick + u3.SendDelay
        THEN UpdateSend(u3)
        ELSE [u |-> u3, sent |-> FALSE, batch |-> <<>>])

(* result: the session, whether a batch is returned, and the batch *)
RUDPUpdate(u, buf, size, tick) ==
    Then(UpdateDecode(u, buf, size, tick), LAMBDA u3 :
        IF u3.CurrentTick >= u3.LastSendTick + u3.SendDelay
        THEN UpdateSend(u3)
        ELSE [u |-> u3, sent |-> FALSE, batch |-> <<>>])

(* ------------------------- callers and the wire ------------------------ *)
(* The payloads a caller hands to send(): one that fits a buffer and one   *)
(* that does not.                                                           *)
SendPayloads == {<<7>>, [i \in 1..(DefaultPackageSize - 3) |-> 9]}

WireIds == {0, 1, 2}

(* the payload the peer sends under wire ID i *)
PayloadOf(i) == <<10 + i>>

DataRecord(i) == <<TypeNormal + 1, 0, i>> \o PayloadOf(i)

(* what reaches the receive path: well-formed records, records cut short, *)
(* and packets of two records                                              *)
Chunks ==
    {<<TypeIgnore>>, <<TypeCorrupt>>, <<TypeRequest, 0, 1>>}
    \cup {<<TypeMissing, 0, i>> : i \in WireIds}
    \cup {DataRecord(i) : i \in WireIds}
    \cup {<<128>>, <<TypeMissing, 0>>, <<TypeNormal + 1, 0, 0>>}

Leads == {DataRecord(2), <<TypeCorrupt>>, <<128, TypeNormal + 1, 0, 1>> \o PayloadOf(1)}

Packets == {<<>>} \cup Chunks \cup {a \o b : a \in Leads, b \in Chunks}

Ret(op, s, err, m, sent, batch) ==
    [op |-> op, s |-> s, err |-> err, m |-> m, sent |-> sent, batch |-> batch]

(* what the caller puts on the wire for a package: its first Size bytes *)
Transmit(p) == Take(p.Buf, p.Size)

(* the caps on what grows without bound: the extended IDs (kept to the    *)
(* wire IDs the peer uses), the clock, and the lists packets add to        *)
InBounds(u) ==
    /\ u.RecvIdMax \in WireIds
    /\ u.CurrentTick <= MaxTick
    /\ Len(u.RecvQueue) <= MaxQueue
    /\ Len(u.SendAgain.A) <= MaxAgain

InitWith(configs) ==
    /\ \E c \in configs : ss = [s \in Sessions |-> RUDPNew(c[1], c[2])]
    /\ net = [s \in Sessions |-> {}]
    /\ ret = Ret("new", "A", FALSE, <<>>, FALSE, <<>>)

Send(s, payloads) ==
    /\ ss[s].SendId < MaxSend
    /\ \E buf \in payloads :
           ss' = [ss EXCEPT ![s] = RUDPSend(@, buf, Len(buf))]
    /\ ret' = Ret("send", s, FALSE, <<>>, FALSE, <<>>)
    /\ UNCHANGED net

Recv(s) ==
    LET r == RUDPRecv(ss[s])
    IN  /\ ss' = [ss EXCEPT ![s] = r.u]
        /\ ret' = Ret("recv", s, r.err, r.m, FALSE, <<>>)
        /\ UNCHANGED net

Update(s, packets, elapsed) ==
    \E pkt \in packets, tick \in elapsed :
        \E r \in {RUDPUpdate(ss[s], pkt, Len(pkt), tick)} :
            /\ InBounds(ExtractPackage(ss[s], pkt, Len(pkt)))
            /\ InBounds(r.u)
            /\ ss' = [ss EXCEPT ![s] = r.u]
            /\ ret' = Ret("update", s, FALSE, <<>>, r.sent, r.batch)
            /\ UNCHANGED net

Close(s) ==
    /\ ss' = [ss EXCEPT ![s] = RUDPDelete(@)]
    /\ ret' = Ret("close", s, FALSE, <<>>, FALSE, <<>>)
    /\ UNCHANGED net

(* The receive path: one session, constructed to send on every update,   *)
(* fed whatever packets arrive.                                            *)
InitRecv == InitWith({<<0, 1>>})

NextRecv == Recv("A") \/ Update("A", Packets, {0}) \/ Close("A")

SpecRecv == InitRecv /\ [][NextRecv]_vars

(* The send path: one session whose caller sends, whose clock runs, and    *)
(* whose peer asks for retransmissions.                                     *)
SendPackets == {<<>>, <<TypeIgnore>>} \cup {<<TypeRequest, 0, i>> : i \in WireIds}

InitSend == InitWith({<<1, 1>>, <<2, 1>>, <<0, 2>>})

NextSend == Send("A", SendPayloads) \/ Update("A", SendPackets, {0, 1, 2}) \/ Close("A")

SpecSend == InitSend /\ [][NextSend]_vars

(* ------------------------- two sessions, one wire ---------------------- *)
(* net[s] holds the packets in flight to s.  A packet may be delivered and *)
(* stay in flight (duplication), be delivered in any order, or be lost.    *)
Arrive(s, pkt, tick, keep) ==
    \E r \in {RUDPUpdate(ss[s], pkt, Len(pkt), tick)} :
        /\ InBounds(ExtractPackage(ss[s], pkt, Len(pkt)))
        /\ InBounds(r.u)
        /\ ss' = [ss EXCEPT ![s] = r.u]
        /\ ret' = Ret("update", s, FALSE, <<>>, r.sent, r.batch)
        /\ net' = [net EXCEPT ![s] = IF keep THEN @ ELSE @ \ {pkt},
                              ![Peer(s)] = @ \cup {Transmit(r.batch[i]) : i \in 1..Len(r.batch)}]

Deliver(s) ==
    \E pkt \in net[s], keep \in BOOLEAN : Arrive(s, pkt, 0, keep)

(* an update at which no packet has arrived *)
Idle(s) == Arrive(s, <<>>, 0, TRUE)

Lose(s) ==
    /\ \E pkt \in net[s] : net' = [net EXCEPT ![s] = @ \ {pkt}]
    /\ ret' = Ret("lose", s, FALSE, <<>>, FALSE, <<>>)
    /\ UNCHANGED ss

(* Both sessions send on every update, so the callers' clocks may stand   *)
(* still, and both keep their history.                                     *)
InitPair == InitWith({<<0, MaxTick + 1>>})

NextPair ==
    \/ Send("A", SendPayloads)
    \/ \E s \in Sessions : Recv(s)
    \/ \E s \in Sessions : Deliver(s)
    \/ \E s \in Sessions : Idle(s)
    \/ \E s \in Sessions : Lose(s)

(* Callers keep calling update() and receive(); the wire keeps delivering. *)
SpecPair ==
    /\ InitPair
    /\ [][NextPair]_vars
    /\ \A s \in Sessions : WF_vars(Idle(s)) /\ WF_vars(Recv(s)) /\ SF_vars(Deliver(s))

(* ------------------------- the ID extension alone ---------------------- *)
IdMaxes == {0, 1, 100, 32767, 32768, 40000, 65535, 65536, 70000, 100000, 131071, 200000}

WireSamples == {0, 1, 100, 7231, 7232, 32767, 32768, 32769, 34464, 40000, 65535}

InitID ==
    /\ \E M \in IdMaxes : ss = [s \in Sessions |-> [RUDPNew(0, 1) EXCEPT !.RecvIdMax = M]]
    /\ net = [s \in Sessions |-> {}]
    /\ ret = Ret("new", "A", FALSE, <<>>, FALSE, <<>>)

(* ret.m: the wire ID handed in and the extended ID handed back *)
Extend ==
    /\ \E w \in WireSamples :
           ret' = Ret("GetID", "A", FALSE,
                      <<w, GetID(ss["A"], <<w \div 256, w % 256>>)>>, FALSE, <<>>)
    /\ UNCHANGED <<ss, net>>

NextID == Extend

SpecGetID == InitID /\ [][NextID]_vars

(* ================================ claims =============================== *)
A == ss["A"]

B == ss["B"]

(* the message a receive() step hands back, if the step is one *)
Delivered(r) == r.op = "recv" /\ r.m # <<>> /\ r.m[1].Size >= 0

(* C1: the payloads successive receive() calls return come in ascending    *)
(* ID order, each ID once: a receive() that returns a payload returns the  *)
(* payload that arrived under ID recv_id_min, and recv_id_min then moves   *)
(* on by one; nothing is returned while that message has not arrived.      *)
C1_InOrderDelivery ==
    [][Delivered(ret') =>
          /\ ret'.m[1].Buf = PayloadOf(A.RecvIdMin)
          /\ A'.RecvIdMin = A.RecvIdMin + 1]_vars

(* C2: receive() takes an entry off the inbound queue and raises           *)
(* recv_id_min only if the entry is the head of the queue, has             *)
(* id = recv_id_min and holds a real payload; a placeholder at             *)
(* recv_id_min leaves the queue and recv_id_min as they are.               *)
C2_PopsOnlyRealHead ==
    [][(ret'.op = "recv"
          /\ (A'.RecvQueue # A.RecvQueue \/ A'.RecvIdMin # A.RecvIdMin)) =>
          /\ Len(A.RecvQueue) > 0
          /\ Head(A.RecvQueue).ID = A.RecvIdMin
          /\ Head(A.RecvQueue).Size >= 0
          /\ A'.RecvQueue = Tail(A.RecvQueue)
          /\ A'.RecvIdMin = A.RecvIdMin + 1]_vars

(* C4: with the corrupt flag set, receive() returns the corruption error,  *)
(* clears the flag, delivers nothing and leaves recv_id_min and the        *)
(* inbound queue alone; with the flag clear it reports no corruption, and  *)
(* only decoding a packet sets the flag, so each event is reported once.   *)
C4_CorruptReportedOnce ==
    [][/\ ret'.op = "recv" =>
             IF A.Corrupt # 0
             THEN /\ ret'.err
                  /\ ret'.m = <<>>
                  /\ A'.Corrupt = 0
                  /\ A'.RecvIdMin = A.RecvIdMin
                  /\ A'.RecvQueue = A.RecvQueue
             ELSE ~ret'.err /\ A'.Corrupt = 0
       /\ ret'.op \notin {"recv", "update"} => A'.Corrupt = A.Corrupt]_vars

(* a receive() has just reported corruption, with a message waiting *)
C4_Witness == ret.op = "recv" /\ ret.err /\ A.Corrupt = 0 /\ Len(A.RecvQueue) > 0

(* The records of a packet by the wire format: the well-formed records in  *)
(* front of the first record that is cut short or is a Corrupt record      *)
(* (bad), or all of them.                                                  *)
RECURSIVE ParseRecs(_)
ParseRecs(buf) ==
    IF buf = <<>> THEN [recs |-> <<>>, bad |-> FALSE]
    ELSE IF buf[1] >= 128 /\ Len(buf) < 2 THEN [recs |-> <<>>, bad |-> TRUE]
    ELSE
    LET len  == IF buf[1] >= 128 THEN (buf[1] - 128) * 256 + buf[2] ELSE buf[1]
        body == IF buf[1] >= 128 THEN Drop(buf, 2) ELSE Drop(buf, 1)
        more(rec, rest) == LET p == ParseRecs(rest)
                           IN  [recs |-> <<rec>> \o p.recs, bad |-> p.bad]
    IN  IF len = 0 THEN more([kind |-> "Ignore", id |-> <<>>, payload |-> <<>>], body)
        ELSE IF len = 1 THEN [recs |-> <<>>, bad |-> TRUE]
        ELSE IF len \in {2, 3}
        THEN IF Len(body) < 2 THEN [recs |-> <<>>, bad |-> TRUE]
             ELSE more([kind |-> IF len = 2 THEN "Request" ELSE "Missing",
                        id |-> Take(body, 2), payload |-> <<>>], Drop(body, 2))
        ELSE IF Len(body) < (len - 4) + 2 THEN [recs |-> <<>>, bad |-> TRUE]
             ELSE more([kind |-> "Data", id |-> Take(body, 2),
                        payload |-> SubSeq(body, 3, len - 2)], Drop(body, len - 2))

(* what one record does to the session *)
ApplyRec(u, r) ==
    IF r.kind = "Ignore"
    THEN (IF u.SendAgain.N = 0 THEN [u EXCEPT !.SendAgain.A = Append(@, u.RecvIdMin)] ELSE u)
    ELSE IF r.kind = "Request" THEN [u EXCEPT !.SendAgain.A = Append(@, GetID(u, r.id))]
    ELSE IF r.kind = "Missing" THEN AddMissing(u, GetID(u, r.id))
    ELSE InsertMessage(u, GetID(u, r.id), r.payload, Len(r.payload))

RECURSIVE ApplyRecs(_, _)
ApplyRecs(u, recs) ==
    IF recs = <<>> THEN u ELSE ApplyRecs(ApplyRec(u, Head(recs)), Tail(recs))

(* C5: decoding a packet applies its records up to the first one that is   *)
(* cut short or is a Corrupt record, sets the corrupt flag there and       *)
(* applies nothing behind it; a well-formed packet is applied in full,     *)
(* whatever the flag was, and leaves the flag as it was.                   *)
C5_DecodeStopsAtMalformed ==
    \A pkt \in Packets :
        LET p == ParseRecs(pkt)
            want == ApplyRecs(A, p.recs)
        IN  ExtractPackage(A, pkt, Len(pkt)) =
                [want EXCEPT !.Corrupt = IF p.bad THEN 1 ELSE A.Corrupt]

(* an update has decoded a packet whose first record was applied and whose *)
(* second was malformed                                                    *)
C5_Witness ==
    /\ ret.op = "update"
    /\ A.Corrupt = 1
    /\ Len(A.RecvQueue) = 1
    /\ Head(A.RecvQueue).ID = 2
    /\ A.SendAgain.A = <<>>

(* C6: update() returns a batch exactly when, with the clock advanced,     *)
(* clock - last_send_tick >= send_interval, and then sets last_send_tick   *)
(* to the clock; otherwise it returns none and leaves last_send_tick and   *)
(* the outbound queue alone and moves nothing into the send history.       *)
C6_SendsExactlyWhenDue ==
    [][ret'.op = "update" =>
          /\ ret'.sent <=> (A'.CurrentTick - A.LastSendTick >= A.SendDelay)
          /\ ret'.sent => /\ A'.LastSendTick = A'.CurrentTick
                          /\ ret'.batch = A'.SendPackage
          /\ ~ret'.sent =>
                /\ ret'.batch = <<>>
                /\ A'.LastSendTick = A.LastSendTick
                /\ A'.SendQueue = A.SendQueue
                /\ \A i \in 1..Len(A'.SendHistory) :
                       \E j \in 1..Len(A.SendHistory) :
                           A'.SendHistory[i] = A.SendHistory[j]]_vars

(* an update has returned none with a message waiting in the outbound queue *)
C6_Witness ==
    /\ ret.op = "update"
    /\ ~ret.sent
    /\ Len(A.SendQueue) > 0
    /\ A.CurrentTick > 0
    /\ A.CurrentTick - A.LastSendTick < A.SendDelay

(* the kinds of the records the buffers of a batch carry *)
BatchKinds(batch) ==
    UNION {{r.kind : r \in {q[k] : k \in 1..Len(q)}} :
              q \in {ParseRecs(Transmit(batch[i])).recs : i \in 1..Len(batch)}}

(* C7: every batch of a send cycle holds at least one buffer and no buffer *)
(* of size 0, and holds an Ignore record exactly when it holds no Request, *)
(* Missing or Data record.                                                 *)
C7_BatchNonEmpty ==
    (ret.op = "update" /\ ret.sent) =>
        /\ Len(ret.batch) >= 1
        /\ \A i \in 1..Len(ret.batch) : ret.batch[i].Size > 0
        /\ ("Ignore" \in BatchKinds(ret.batch))
               <=> (BatchKinds(ret.batch) \cap {"Request", "Missing", "Data"} = {})

(* C8: send() gives the message an ID above every ID given before, stamps  *)
(* it with the clock and appends it at the tail of the outbound queue, so  *)
(* that the queue read from its head is in ascending ID order.             *)
C8_SendAppendsInOrder ==
    [][ret'.op = "send" =>
          LET q == A'.SendQueue
              n == Len(q)
          IN  /\ n = Len(A.SendQueue) + 1
              /\ q[n].ID > A.SendId
              /\ A'.SendId = q[n].ID
              /\ q[n].Tick = A.CurrentTick
              /\ SubSeq(q, 1, n - 1) = A.SendQueue
              /\ \A i, j \in 1..n : i < j => q[i].ID < q[j].ID]_vars

(* C3: over a wire that loses, duplicates and reorders but keeps           *)
(* delivering, with both sides updating and history kept, every message    *)
(* handed to send() at A is in the end returned by receive() at B, and     *)
(* each message is returned once only (B returns the payload that arrived  *)
(* under recv_id_min and moves recv_id_min on).                            *)
C3_EveryMessageDelivered ==
    /\ \A buf \in SendPayloads :
           (\E i \in 1..Len(A.SendQueue) : A.SendQueue[i].Buf = buf)
               ~> (Delivered(ret) /\ ret.s = "B" /\ ret.m[1].Buf = buf)
    /\ [][(Delivered(ret') /\ ret'.s = "B") => B'.RecvIdMin = B.RecvIdMin + 1]_vars

(* C9: in a fresh pair the ID A's first send() assigns is B's initial      *)
(* recv_id_min, so that B can deliver A's first message as soon as it has  *)
(* decoded it, with no retransmission round.                               *)
C9_FirstIdIsRecvIdMin ==
    (A.SendId = 1 /\ B.RecvIdMin = RUDPNew(0, 1).RecvIdMin) =>
        \A i \in 1..Len(A.SendQueue) : A.SendQueue[i].ID = B.RecvIdMin

(* C10: the extension of wire ID w under recv_id_max = M is the one        *)
(* extended ID x with M - 32768 <= x < M + 32768 and x mod 65536 = w.      *)
C10_ExtensionInWindow ==
    ret.op = "GetID" =>
        LET w == ret.m[1]
            x == ret.m[2]
            M == A.RecvIdMax
        IN  /\ M - 32768 <= x
            /\ x < M + 32768
            /\ x % 65536 = w

(* C11: the inbound queue holds at most one entry per extended ID and its  *)
(* IDs are strictly increasing in queue order, whatever Data and Missing   *)
(* records have been decoded.                                              *)
C11_InboundQueueSorted ==
    \A i, j \in 1..Len(A.RecvQueue) :
        i < j => A.RecvQueue[i].ID < A.RecvQueue[j].ID

(* the messages of history h whose tick is at or above t, in their order *)
KeptFrom(h, t) == SelectSeq(h, LAMBDA m : m.Tick >= t)

(* C12: after history expiry with threshold t the send history holds no    *)
(* message with tick < t, and holds every message it held with tick >= t,  *)
(* in the same order.                                                      *)
C12_ExpiryDropsOnlyOld ==
    \A t \in 0..MaxTick :
        ClearSendExpired(A, t).SendHistory = KeptFrom(A.SendHistory, t)

(* C13: in update() history expiry runs exactly when, with the clock       *)
(* advanced, clock - last_expire_tick >= expire_interval; it then expires  *)
(* with the old last_expire_tick as threshold and sets last_expire_tick to *)
(* the clock; otherwise the expiry step leaves the history and             *)
(* last_expire_tick alone (the send cycle that follows may append to the   *)
(* history).                                                               *)
C13_ExpiresExactlyWhenDue ==
    [][ret'.op = "update" =>
          LET before == IF A'.CurrentTick - A.LastExpireTick >= A.Expired
                        THEN ClearSendExpired(A, A.LastExpireTick).SendHistory
                        ELSE A.SendHistory
          IN  /\ A'.LastExpireTick =
                     IF A'.CurrentTick - A.LastExpireTick >= A.Expired
                     THEN A'.CurrentTick ELSE A.LastExpireTick
              /\ Len(A'.SendHistory) >= Len(before)
              /\ Take(A'.SendHistory, Len(before)) = before]_vars

(* C14: a message moved into the send history at tick t stays there until  *)
(* the clock reaches t + expire_interval.  A message is stamped with the   *)
(* clock by send() and moved later, so t is no less than its Tick: an      *)
(* update() whose clock is below Tick + expire_interval removes no message *)
(* of the history.                                                         *)
C14_KeptForExpireInterval ==
    [][ret'.op = "update" =>
          \A i \in 1..Len(A.SendHistory) :
              A'.CurrentTick < A.SendHistory[i].Tick + A.Expired =>
                  \E j \in 1..Len(A'.SendHistory) :
                      A'.SendHistory[j] = A.SendHistory[i]]_vars

(* the records of every buffer of a batch, in order *)
RECURSIVE BatchRecs(_)
BatchRecs(batch) ==
    IF batch = <<>> THEN <<>>
    ELSE ParseRecs(Transmit(Head(batch))).recs \o BatchRecs(Tail(batch))

(* how many records of recs are of the kind and carry wire ID id *)
CountRecs(recs, kind, id) ==
    Cardinality({k \in 1..Len(recs) :
                     recs[k].kind = kind /\ recs[k].id = <<(id \div 256) % 256, id % 256>>})

(* the IDs of the inbound queue, and those of its real payloads *)
QueueIds(q) == {q[k].ID : k \in 1..Len(q)}

RealIds(q) == {q[k].ID : k \in {n \in 1..Len(q) : q[n].Size >= 0}}

(* the IDs the gap scan has to ask for *)
Gaps(u) ==
    {i \in 0..MaxQueue + 1 :
        /\ u.RecvIdMin <= i
        /\ \E top \in QueueIds(u.RecvQueue) : i < top
        /\ i \notin RealIds(u.RecvQueue)}

(* C15: the batch of a send cycle carries exactly one Request record for   *)
(* every ID from recv_id_min up to, not including, the largest ID of the   *)
(* inbound queue for which the queue holds no real payload, and none for   *)
(* any other ID.                                                           *)
C15_OneRequestPerGap ==
    (ret.op = "update" /\ ret.sent) =>
        \A i \in 0..MaxQueue + 1 :
            CountRecs(BatchRecs(ret.batch), "Request", i) =
                IF i \in Gaps(A) THEN 1 ELSE 0

(* the IDs the Request records of a packet carry, as session u extends them *)
RequestedIds(u, pkt) ==
    {GetID(u, r.id) : r \in {q \in {ParseRecs(pkt).recs[k] : k \in 1..Len(ParseRecs(pkt).recs)} :
                                  q.kind = "Request"}}

(* C16: an update() that decodes Request records and runs a send cycle     *)
(* puts exactly one reply per requested ID into the batch, a Data record   *)
(* replaying the history entry if the send history holds the ID and a      *)
(* Missing record otherwise, and leaves the retransmission index empty.    *)
C16_RequestsAnswered ==
    \A pkt \in SendPackets :
        LET h    == UpdateDecode(A, pkt, Len(pkt), A.SendDelay).SendHistory
            r    == RUDPUpdate(A, pkt, Len(pkt), A.SendDelay)
            recs == BatchRecs(r.batch)
        IN  /\ r.sent
            /\ r.u.SendAgain.N = 0
            /\ \A x \in RequestedIds(A, pkt) :
                   IF \E k \in 1..Len(h) : h[k].ID = x
                   THEN /\ CountRecs(recs, "Missing", x) = 0
                        /\ CountRecs(recs, "Data", x) = 1
                        /\ \A k \in 1..Len(h), n \in 1..Len(recs) :
                               (h[k].ID = x /\ recs[n].kind = "Data"
                                    /\ recs[n].id = <<(x \div 256) % 256, x % 256>>) =>
                                   recs[n].payload = h[k].Buf
                   ELSE CountRecs(recs, "Missing", x) = 1

(* C17: a send cycle empties the outbound queue: every message of it is    *)
(* moved to the tail of the send history in send order, the batch carries  *)
(* exactly one Data record, ID and payload, for each of them whatever its  *)
(* size, and the send history is in strictly ascending ID order.           *)
C17_SendCycleEmptiesQueue ==
    [][(ret'.op = "update" /\ ret'.sent) =>
          LET q == A.SendQueue
              h == A'.SendHistory
              recs == BatchRecs(ret'.batch)
          IN  /\ A'.SendQueue = <<>>
              /\ Len(h) >= Len(q)
              /\ Drop(h, Len(h) - Len(q)) = q
              /\ \A k \in 1..Len(q) :
                     /\ CountRecs(recs, "Data", q[k].ID) = 1
                     /\ \E n \in 1..Len(recs) :
                            /\ recs[n].kind = "Data"
                            /\ recs[n].id = <<(q[k].ID \div 256) % 256, q[k].ID % 256>>
                            /\ recs[n].payload = q[k].Buf
              /\ \A i, j \in 1..Len(h) : i < j => h[i].ID < h[j].ID]_vars

(* --------------------------- the codec alone --------------------------- *)
(* A record as the packing code lays it out: the header FillHeader writes  *)
(* into a clear buffer, then the payload.                                  *)
EncodeRecord(length, id, payload) ==
    LET h == FillHeader(<<0, 0, 0, 0>>, length, id)
    IN  Take(h.buf, h.size) \o payload

CodecSizes == {0, 1, 2, 50, 123, 124, 125, 200, 300, 508}

CodecIds == {0, 1, 2, 127, 128, 255, 256, 257, 1000, 32767}

(* One record is encoded and a fresh session decodes it.  ret.m: the tag,  *)
(* the payload size and the ID the encoder was given.                      *)
Codec ==
    /\ \E tag \in {TypeRequest, TypeMissing, TypeNormal}, id \in CodecIds, n \in CodecSizes :
           /\ tag # TypeNormal => n = 0
           /\ \E pkt \in {EncodeRecord(IF tag = TypeNormal THEN n + TypeNormal ELSE tag, id,
                                       [i \in 1..n |-> 9])} :
                  ss' = [ss EXCEPT !["B"] = ExtractPackage(RUDPNew(0, 1), pkt, Len(pkt))]
           /\ ret' = Ret("codec", "B", FALSE, <<tag, n, id>>, FALSE, <<>>)
    /\ UNCHANGED net

InitCodec == InitWith({<<0, 1>>})

NextCodec == Codec

SpecCodec == InitCodec /\ [][NextCodec]_vars

(* C18: a record header that is encoded and decoded again gives the record *)
(* back: a Request its ID, a Missing record a placeholder under its ID, a  *)
(* Data record its ID, its payload size and its payload, for the one-byte  *)
(* and the two-byte length prefix alike, and nothing is flagged corrupt.   *)
C18_CodecRoundTrip ==
    ret.op = "codec" =>
        LET tag == ret.m[1]
            n   == ret.m[2]
            id  == ret.m[3]
        IN  /\ B.Corrupt = 0
            /\ tag = TypeRequest => B.SendAgain.A = <<id>> /\ B.RecvQueue = <<>>
            /\ tag = TypeMissing =>
                   /\ Len(B.RecvQueue) = 1
                   /\ B.RecvQueue[1].ID = id
                   /\ B.RecvQueue[1].Size < 0
            /\ tag = TypeNormal =>
                   /\ Len(B.RecvQueue) = 1
                   /\ B.RecvQueue[1].ID = id
                   /\ B.RecvQueue[1].Size = n
                   /\ B.RecvQueue[1].Buf = [i \in 1..n |-> 9]

(* ------------------- every call on one session ------------------------- *)
(* The receive path with the caller also sending; the packets are single   *)
(* Data and Missing records, the records that insert.                      *)
CallPackets ==
    {<<>>} \cup {DataRecord(i) : i \in WireIds} \cup {<<TypeMissing, 0, i>> : i \in WireIds}

NextCalls ==
    \/ Send("A", {<<7>>})
    \/ Recv("A")
    \/ Update("A", CallPackets, {0})
    \/ Close("A")

SpecCalls == InitRecv /\ [][NextCalls]_vars

(* C19: in every reachable state recv_id_min <= recv_id_max + 1. *)
C19_MinWithinMax == A.RecvIdMin <= A.RecvIdMax + 1

(* a receive() has just taken the message with the highest ID seen *)
C19_Witness ==
    /\ ret.op = "recv"
    /\ ret.m # <<>>
    /\ A.RecvIdMax > 0
    /\ A.RecvIdMin = A.RecvIdMax + 1

(* C20: recv_id_max never decreases, whatever update(), receive(), send()  *)
(* and close() calls are made.                                             *)
C20_MaxNeverDecreases == [][A'.RecvIdMax >= A.RecvIdMax]_vars

====
